---- MODULE Spec2Model ----
(***************************************************************************)
(* A model of predict.py: the Prediction record, the PredictionStorage     *)
(* (an ordered dict pickled to one file), the interactive builder and      *)
(* solver, and the commands add / edit / solve / del.                      *)
(*                                                                         *)
(* Representation.  Dates are integers (instants of the wall clock `now`). *)
(* A confidence is a fixed-point number in hundredths (0.7 is 70, 1.0 is   *)
(* 100).  Python's None is the string "None" for text and outcome fields   *)
(* and NoneNum for numeric fields.  An optional object (the result of      *)
(* get, the builder's draft) is a sequence of length 0 or 1.               *)
(***************************************************************************)
EXTENDS Integers, Sequences, FiniteSets, TLC

(* ------------------------------ bounds --------------------------------- *)
(* MaxTime: the last instant of the clock.  MaxPred: the most predictions  *)
(* a store is let to hold.  MaxIds: the longest identifier list given to   *)
(* solve.  MaxList: the longest list given to compute_brier_score.         *)
MaxTime == 2
MaxPred == 2
MaxIds == 1
MaxList == 3

(* ------------------------------ values --------------------------------- *)
None == "None"
NoneNum == -1

Statements == {"Rain tomorrow"}
Confidences == {70}

(* Confidences given to compute_brier_score alone; 200 (2.0) lies outside  *)
(* [0, 1].                                                                 *)
BrierConfidences == {0, 50, 70, 100, 200}

Outcomes == {None, "True", "False"}
Proofs == {"link"}
BoolInputs == {"Y", "yes", "n"}
Answers == {"y", "n"}

(* Raw tag lines typed at the 'Tags (comma separated)' prompt, as          *)
(* sequences of characters.                                                *)
TagLines ==
    { <<" ", "a", ",", "A", " ">>,
      <<"b", ",", ",", " ">> }

(* ---------------------------- Prediction ------------------------------- *)
Prediction(realization_date, confidence, statement, t) ==
    [ statement        |-> statement,
      outcome          |-> None,
      confidence       |-> confidence,
      realization_date |-> realization_date,
      emission_date    |-> t,
      tags             |-> <<>>,
      proof            |-> "" ]

StrCode(s) ==
    IF s = None THEN 0 ELSE IF s = "Rain tomorrow" THEN 1 ELSE 2

(* md5(...).hexdigest() as a number of 8 hexadecimal digits: a             *)
(* deterministic digest of the four hashed fields (injective on the        *)
(* bounded domain) followed by two further digits.                         *)
hash(p) ==
    LET n == ((StrCode(p.statement) * 102 + (p.confidence + 1)) * 16
                + (p.realization_date + 1)) * 16 + (p.emission_date + 1)
    IN  n * 256 + ((n * 7 + 3) % 256)

(* hash()[:6]: the six leading digits of the eight.                        *)
short_hash(p) == hash(p) \div 256

(* get_status with the date test written >= instead of >.                 *)
get_status_ge(p, t) ==
    IF p.outcome # None THEN "solved"
    ELSE IF p.realization_date >= t THEN "future"
    ELSE "pending"

get_status(p, t) ==
    IF p.outcome # None THEN "solved"
    ELSE IF p.realization_date > t THEN "future"
    ELSE "pending"

(* ------------------------- PredictionStorage --------------------------- *)
(* content: a dict in insertion order, a sequence of [k, p] items.         *)
Keys(c) == { c[i].k : i \in 1..Len(c) }

Values(c) == [ i \in 1..Len(c) |-> c[i].p ]

get(c, short_id) ==
    IF short_id \in Keys(c)
    THEN << c[CHOOSE i \in 1..Len(c) : c[i].k = short_id].p >>
    ELSE << >>

SetItem(c, key, p) ==
    IF key \in Keys(c)
    THEN [ i \in 1..Len(c) |-> IF c[i].k = key THEN [k |-> key, p |-> p] ELSE c[i] ]
    ELSE Append(c, [k |-> key, p |-> p])

(* add keyed by the whole digest instead of its six leading digits.        *)
add_full_hash(c, prediction) == SetItem(c, hash(prediction), prediction)

add(c, prediction) == SetItem(c, short_hash(prediction), prediction)

RECURSIVE Without(_, _)
Without(c, identifier) ==
    IF c = << >> THEN << >>
    ELSE IF Head(c).k = identifier THEN Without(Tail(c), identifier)
    ELSE << Head(c) >> \o Without(Tail(c), identifier)

(* delete as popitem(): drops the newest item, whatever the identifier.    *)
delete_popitem(c, identifier) ==
    IF c = << >> THEN c ELSE SubSeq(c, 1, Len(c) - 1)

delete(c, identifier) == Without(c, identifier)

get_past(c, snow) ==
    SelectSeq(Values(c), LAMBDA p : p.realization_date < snow)

get_future(c, snow) ==
    SelectSeq(Values(c), LAMBDA p : p.realization_date > snow)

get_pending(c, snow, t) ==
    SelectSeq(get_past(c, snow), LAMBDA p : get_status(p, t) = "pending")

get_solved(c, snow, t) ==
    SelectSeq(get_past(c, snow), LAMBDA p : get_status(p, t) = "solved")

(* sorted(ps, key=lambda x: x.realization_date): a stable sort.            *)
RECURSIVE sorted(_)
sorted(ps) ==
    IF ps = << >> THEN << >>
    ELSE LET x == Head(ps)
             rest == sorted(Tail(ps))
             earlier == SelectSeq(rest, LAMBDA q : q.realization_date < x.realization_date)
             others == SelectSeq(rest, LAMBDA q : q.realization_date >= x.realization_date)
         IN  earlier \o << x >> \o others

(* get_next / get_last: [raised, value], value << >> for None.  [0] of an  *)
(* empty list raises IndexError; sorted(..., reversed=True) raises         *)
(* TypeError, 'reversed' being no keyword of sorted.                       *)
get_next(c, snow) ==
    IF Len(c) = 0
    THEN [ raised |-> "", value |-> << >> ]
    ELSE LET s == sorted(get_future(c, snow)) IN
         IF Len(s) = 0
         THEN [ raised |-> "IndexError", value |-> << >> ]
         ELSE [ raised |-> "", value |-> << s[1] >> ]

get_last(c, snow) ==
    IF Len(c) = 0
    THEN [ raised |-> "", value |-> << >> ]
    ELSE [ raised |-> "TypeError", value |-> << >> ]

(* compute_brier_score.  The result is the fraction num / den in units of  *)
(* 1/10000 (the square of the confidence unit): [num |-> 2500, den |-> 1]  *)
(* is 0.25, and the integer 2 is [num |-> 20000, den |-> 1].               *)
RECURSIVE BrierTotal(_)
BrierTotal(solved) ==
    IF solved = << >> THEN 0
    ELSE LET prediction == Head(solved)
             outcome == IF prediction.outcome = "True" THEN 1 ELSE 0
         IN  (prediction.confidence - 100 * outcome) * (prediction.confidence - 100 * outcome)
             + BrierTotal(Tail(solved))

(* compute_brier_score's filter left out: every record is scored.          *)
BrierFilterNone(prediction_list, t) == prediction_list

BrierFilter(prediction_list, t) ==
    SelectSeq(prediction_list, LAMBDA p : get_status(p, t) = "solved")

(* compute_brier_score with 0 for 'no resolved prediction'.                *)
compute_brier_score_zero(prediction_list, t) ==
    LET solved == BrierFilter(prediction_list, t) IN
    IF Len(solved) = 0
    THEN [ num |-> 0, den |-> 1 ]
    ELSE [ num |-> BrierTotal(solved), den |-> Len(solved) ]

compute_brier_score(prediction_list, t) ==
    LET solved == BrierFilter(prediction_list, t) IN
    IF Len(solved) = 0
    THEN [ num |-> 2 * 10000, den |-> 1 ]
    ELSE [ num |-> BrierTotal(solved), den |-> Len(solved) ]

get_brier_score(c, t) == compute_brier_score(Values(c), t)

(* ------------------------------ pickle --------------------------------- *)
(* pickle.dump: a header, then eight tokens per item, then a terminator.   *)
(* pickle.dump that loses the tags of every prediction.                    *)
RECURSIVE DumpItemsNoTags(_)
DumpItemsNoTags(c) ==
    IF c = << >> THEN << >>
    ELSE LET e == Head(c) IN
         << e.k, e.p.statement, e.p.outcome, e.p.confidence,
            e.p.realization_date, e.p.emission_date, << >>, e.p.proof >>
         \o DumpItemsNoTags(Tail(c))

RECURSIVE DumpItems(_)
DumpItems(c) ==
    IF c = << >> THEN << >>
    ELSE LET e == Head(c) IN
         << e.k, e.p.statement, e.p.outcome, e.p.confidence,
            e.p.realization_date, e.p.emission_date, e.p.tags, e.p.proof >>
         \o DumpItems(Tail(c))

dumps(c) == << "PROTO" >> \o DumpItems(c) \o << "STOP" >>

LoadItem(b, i) ==
    [ k |-> b[i],
      p |-> [ statement        |-> b[i + 1],
              outcome          |-> b[i + 2],
              confidence       |-> b[i + 3],
              realization_date |-> b[i + 4],
              emission_date    |-> b[i + 5],
              tags             |-> b[i + 6],
              proof            |-> b[i + 7] ] ]

(* pickle.load: [ok |-> FALSE] stands for the exception it raises on a     *)
(* file that is empty or cut short.                                        *)
loads(b) ==
    IF /\ Len(b) >= 2
       /\ (Len(b) - 2) % 8 = 0
       /\ b[1] = "PROTO"
       /\ b[Len(b)] = "STOP"
    THEN [ ok |-> TRUE,
           content |-> [ j \in 1..((Len(b) - 2) \div 8) |-> LoadItem(b, 8 * (j - 1) + 2) ] ]
    ELSE [ ok |-> FALSE, content |-> << >> ]

(* ------------------------- InteractivePrompt --------------------------- *)
lower(s) ==
    CASE s = "Y" -> "y"
      [] s = "YES" -> "yes"
      [] OTHER -> s

prompt_bool(user_input) == lower(user_input) \in {"yes", "true", "1", "y"}

PyBool(b) == IF b THEN "True" ELSE "False"

(* input('... [y/n] ').upper() == 'Y'                                      *)
answered_yes(answer) ==
    (CASE answer = "y" -> "Y" [] answer = "n" -> "N" [] OTHER -> answer) = "Y"

(* --------------------- InteractivePredictionBuilder -------------------- *)
(* dir(prediction) without the dunder names: the names of the public       *)
(* attributes and methods, each a string.                                  *)
public_attrs ==
    { "confidence", "emission_date", "get_status", "hash", "outcome", "proof",
      "realization_date", "short_hash", "statement", "tags" }

(* The comprehension tests the attribute NAME against None, not the value  *)
(* of the attribute.                                                       *)
get_errors(prediction) == { attr \in public_attrs : attr = None }

build(prediction) ==
    IF get_errors(prediction) = {} THEN << prediction >> ELSE << >>

(* str.split(','): the pieces between the commas, empty pieces kept.       *)
RECURSIVE split(_)
split(line) ==
    IF \A i \in 1..Len(line) : line[i] # ","
    THEN << line >>
    ELSE LET i == CHOOSE j \in 1..Len(line) :
                    /\ line[j] = ","
                    /\ \A h \in 1..(j - 1) : line[h] # ","
         IN  << SubSeq(line, 1, i - 1) >> \o split(SubSeq(line, i + 1, Len(line)))

RECURSIVE lstrip(_)
lstrip(t) ==
    IF t # << >> /\ Head(t) = " " THEN lstrip(Tail(t)) ELSE t

RECURSIVE rstrip(_)
rstrip(t) ==
    IF t # << >> /\ t[Len(t)] = " " THEN rstrip(SubSeq(t, 1, Len(t) - 1)) ELSE t

strip(t) == rstrip(lstrip(t))

UpperChar(ch) ==
    CASE ch = "a" -> "A"
      [] ch = "b" -> "B"
      [] OTHER -> ch

upper(t) == [ i \in 1..Len(t) |-> UpperChar(t[i]) ]

RECURSIVE NormalizeTags(_)
NormalizeTags(pieces) ==
    IF pieces = << >> THEN << >>
    ELSE (IF Len(strip(Head(pieces))) > 0
          THEN << upper(strip(Head(pieces))) >>
          ELSE << >>)
         \o NormalizeTags(Tail(pieces))

edit(prediction, tag_input) ==
    [ prediction EXCEPT !.tags = NormalizeTags(split(tag_input)) ]

build_interactive(prediction, statement, realization_date, confidence, tag_input) ==
    edit([ prediction EXCEPT !.statement = statement,
                             !.realization_date = realization_date,
                             !.confidence = confidence ],
         tag_input)

(* ---------------------- InteractivePredictionSolver -------------------- *)
(* solve where an answer that is not a yes leaves the outcome unset.       *)
solve_unset(prediction, outcome_input, proof_input) ==
    [ prediction EXCEPT !.outcome = IF prompt_bool(outcome_input) THEN "True" ELSE None,
                        !.proof = IF Len(proof_input) > 0 THEN proof_input ELSE None ]

solve(prediction, outcome_input, proof_input) ==
    [ prediction EXCEPT !.outcome = PyBool(prompt_bool(outcome_input)),
                        !.proof = IF Len(proof_input) > 0 THEN proof_input ELSE None ]

(* ------------------------------- state --------------------------------- *)
VARIABLES
    now,             \* datetime.now(), the wall clock
    file,            \* the file at PREDICTION_DB: [exists, bytes]
    pc,              \* where the running command stands; "idle": no process
    cmd,             \* the command running, or the last one that ran
    content,         \* PredictionStorage.content
    storage_now,     \* PredictionStorage.now
    draft,           \* the builder's prediction in add_prediction (0 or 1)
    identifier,      \* the identifier given to edit / del
    predictions,     \* solve_predictions: keys of the predictions still to ask
    exit,            \* how the last process ended: "ok", "error", "killed"
    prediction_list, \* the argument of compute_brier_score; in print_stats,
                     \* the predictions selected
    brier,           \* the result of compute_brier_score
    solved_list,     \* print_stats: the three lists
    future_list,
    pending_list,
    result           \* what get_next / get_last returned or raised

stats == << solved_list, future_list, pending_list, result >>

vars == << now, file, pc, cmd, content, storage_now, draft, identifier,
           predictions, exit, prediction_list, brier, stats >>

NoFile == [ exists |-> FALSE, bytes |-> << >> ]

NoScore == [ num |-> 0, den |-> 0 ]

(* result before any call: nothing raised, nothing returned.               *)
NoResult == [ raised |-> "", value |-> << >> ]

NoStats ==
    /\ solved_list = << >>
    /\ future_list = << >>
    /\ pending_list = << >>
    /\ result = NoResult

Init ==
    /\ now = 0
    /\ file = NoFile
    /\ pc = "idle"
    /\ cmd = ""
    /\ content = << >>
    /\ storage_now = 0
    /\ draft = << >>
    /\ identifier = 0
    /\ predictions = << >>
    /\ exit = "ok"
    /\ prediction_list = << >>
    /\ brier = NoScore
    /\ NoStats

(* create_file_if_not_exists that also replaces a file pickle cannot load  *)
(* by an empty collection.                                                 *)
create_file_if_unreadable(f) ==
    IF f.exists /\ loads(f.bytes).ok THEN f ELSE [ exists |-> TRUE, bytes |-> dumps(<< >>) ]

(* create_file_if_not_exists: the file as __load_data finds it.            *)
create_file_if_not_exists(f) ==
    IF f.exists THEN f ELSE [ exists |-> TRUE, bytes |-> dumps(<< >>) ]

(* __load_data on that file.                                               *)
Loaded == loads(create_file_if_not_exists(file).bytes)

(* Identifiers a user may type: the keys on file and one that is no key.   *)
NoSuchId == 0

Identifiers == Keys(Loaded.content) \cup {NoSuchId}

RECURSIVE SeqsUpTo(_, _)
SeqsUpTo(S, n) ==
    IF n = 0 THEN { << >> }
    ELSE LET shorter == SeqsUpTo(S, n - 1) IN
         shorter \cup { Append(q, x) : q \in shorter, x \in S }

(* PredictionStorage.__init__ where pickle.load raises: the exception      *)
(* ends the command, whichever it is.                                      *)
StorageCorrupt ==
    /\ pc = "idle"
    /\ ~Loaded.ok
    /\ exit' = "error"
    /\ UNCHANGED << now, file, pc, cmd, content, storage_now, draft, identifier,
                    predictions, prediction_list, brier, stats >>

(* The clock advances.                                                     *)
Tick ==
    /\ now < MaxTime
    /\ now' = now + 1
    /\ UNCHANGED << file, pc, cmd, content, storage_now, draft, identifier,
                    predictions, exit, prediction_list, brier, stats >>

(* add_prediction up to its loop: the builder's Prediction() reads the     *)
(* clock (a later reading is later), then the storage is opened.           *)
AddStart ==
    /\ pc = "idle"
    /\ now < MaxTime
    /\ Loaded.ok
    /\ Len(Loaded.content) < MaxPred
    /\ draft' = << Prediction(NoneNum, NoneNum, None, now) >>
    /\ now' = now + 1
    /\ file' = create_file_if_not_exists(file)
    /\ content' = Loaded.content
    /\ storage_now' = now'
    /\ pc' = "add"
    /\ cmd' = "add"
    /\ UNCHANGED << identifier, predictions, exit, prediction_list, brier, stats >>

(* One turn of the loop of add_prediction: build_interactive, get_errors,  *)
(* build, 'Is this OK?'; after the loop storage.add.                       *)
AddBuild(statement, realization_date, confidence, tag_input, ok) ==
    /\ pc = "add"
    /\ realization_date > draft[1].emission_date
    /\ LET prediction == build_interactive(draft[1], statement, realization_date,
                                           confidence, tag_input)
           errors == get_errors(prediction)
           confirmed == (errors = {}) /\ answered_yes(ok)
       IN  IF errors # {} \/ ~confirmed
           THEN /\ draft' = << prediction >>
                /\ UNCHANGED << content, pc >>
           ELSE /\ draft' = << >>
                /\ content' = add(content, build(prediction)[1])
                /\ pc' = "save"
    /\ UNCHANGED << now, file, cmd, storage_now, identifier, predictions, exit,
                    prediction_list, brier, stats >>

(* edit_prediction up to the tag prompt; exit(-1) when the id is unknown.  *)
EditStart(id) ==
    /\ pc = "idle"
    /\ Loaded.ok
    /\ file' = create_file_if_not_exists(file)
    /\ IF get(Loaded.content, id) = << >>
       THEN /\ exit' = "error"
            /\ UNCHANGED << pc, cmd, content, storage_now, identifier >>
       ELSE /\ pc' = "edit"
            /\ cmd' = "edit"
            /\ content' = Loaded.content
            /\ storage_now' = now
            /\ identifier' = id
            /\ UNCHANGED exit
    /\ UNCHANGED << now, draft, predictions, prediction_list, brier, stats >>

(* builder.edit() on the stored prediction, then builder.build().          *)
EditTags(tag_input) ==
    /\ pc = "edit"
    /\ content' = SetItem(content, identifier, edit(get(content, identifier)[1], tag_input))
    /\ pc' = "save"
    /\ UNCHANGED << now, file, cmd, storage_now, draft, identifier, predictions,
                    exit, prediction_list, brier, stats >>

(* The keys solve_predictions will ask about.                              *)
RECURSIVE ShortHashes(_)
ShortHashes(ps) ==
    IF ps = << >> THEN << >> ELSE << short_hash(Head(ps)) >> \o ShortHashes(Tail(ps))

SolveList(c, identifiers, snow, t) ==
    LET ids == IF Len(identifiers) = 0
               THEN ShortHashes(get_pending(c, snow, t))
               ELSE identifiers
    IN  SelectSeq(ids, LAMBDA i : get(c, i) # << >>)

(* solve_predictions up to its loop.                                       *)
SolveStart(identifiers) ==
    /\ pc = "idle"
    /\ Loaded.ok
    /\ file' = create_file_if_not_exists(file)
    /\ content' = Loaded.content
    /\ storage_now' = now
    /\ predictions' = SolveList(Loaded.content, identifiers, now, now)
    /\ pc' = IF predictions' = << >> THEN "save" ELSE "solve"
    /\ cmd' = "solve"
    /\ UNCHANGED << now, draft, identifier, exit, prediction_list, brier, stats >>

(* 'Solve ? [y/n]' answered with something else than y.                    *)
SolveSkip ==
    /\ pc = "solve"
    /\ predictions' = Tail(predictions)
    /\ pc' = IF predictions' = << >> THEN "save" ELSE "solve"
    /\ UNCHANGED << now, file, cmd, content, storage_now, draft, identifier, exit,
                    prediction_list, brier, stats >>

(* SolveApply that saves after every resolution instead of once at the     *)
(* end of the command.                                                     *)
SolveApplyAutosave(outcome_input, proof_input, ok) ==
    /\ pc = "solve"
    /\ content' = SetItem(content, Head(predictions),
                          solve(get(content, Head(predictions))[1], outcome_input, proof_input))
    /\ file' = [ exists |-> TRUE, bytes |-> dumps(content') ]
    /\ predictions' = IF answered_yes(ok) THEN Tail(predictions) ELSE predictions
    /\ pc' = IF predictions' = << >> THEN "save" ELSE "solve"
    /\ UNCHANGED << now, cmd, storage_now, draft, identifier, exit,
                    prediction_list, brier, stats >>

(* One turn of the 'while not confirmed' loop: solve, then 'Is this OK?'.  *)
SolveApply(outcome_input, proof_input, ok) ==
    /\ pc = "solve"
    /\ content' = SetItem(content, Head(predictions),
                          solve(get(content, Head(predictions))[1], outcome_input, proof_input))
    /\ predictions' = IF answered_yes(ok) THEN Tail(predictions) ELSE predictions
    /\ pc' = IF predictions' = << >> THEN "save" ELSE "solve"
    /\ UNCHANGED << now, file, cmd, storage_now, draft, identifier, exit,
                    prediction_list, brier, stats >>

(* del_prediction up to its save.                                          *)
DelPrediction(id) ==
    /\ pc = "idle"
    /\ Loaded.ok
    /\ file' = create_file_if_not_exists(file)
    /\ content' = delete(Loaded.content, id)
    /\ storage_now' = now
    /\ identifier' = id
    /\ pc' = "save"
    /\ cmd' = "del"
    /\ UNCHANGED << now, draft, predictions, exit, prediction_list, brier, stats >>

(* save, first half: open(path, 'wb') truncates the file.                  *)
SaveOpen ==
    /\ pc = "save"
    /\ file' = [ exists |-> TRUE, bytes |-> << >> ]
    /\ pc' = "dump"
    /\ UNCHANGED << now, cmd, content, storage_now, draft, identifier, predictions,
                    exit, prediction_list, brier, stats >>

(* save, second half: pickle.dump writes the collection; the command ends. *)
SaveDump ==
    /\ pc = "dump"
    /\ file' = [ exists |-> TRUE, bytes |-> dumps(content) ]
    /\ pc' = "idle"
    /\ exit' = "ok"
    /\ content' = << >>
    /\ draft' = << >>
    /\ identifier' = 0
    /\ predictions' = << >>
    /\ cmd' = ""
    /\ storage_now' = 0
    /\ UNCHANGED << now, prediction_list, brier, stats >>

(* The process stops where it stands: Ctrl-C at a prompt (exit(0) without  *)
(* save), a kill or a power cut; its memory is gone.                       *)
Kill ==
    /\ pc # "idle"
    /\ pc' = "idle"
    /\ exit' = "killed"
    /\ content' = << >>
    /\ draft' = << >>
    /\ identifier' = 0
    /\ predictions' = << >>
    /\ cmd' = ""
    /\ storage_now' = 0
    /\ UNCHANGED << now, file, prediction_list, brier, stats >>

Next ==
    \/ Tick
    \/ StorageCorrupt
    \/ AddStart
    \/ \E statement \in Statements, realization_date \in 1..MaxTime,
          confidence \in Confidences, tag_input \in TagLines, ok \in Answers :
          AddBuild(statement, realization_date, confidence, tag_input, ok)
    \/ \E id \in Identifiers : EditStart(id)
    \/ \E tag_input \in TagLines : EditTags(tag_input)
    \/ \E identifiers \in SeqsUpTo(Identifiers, MaxIds) : SolveStart(identifiers)
    \/ SolveSkip
    \/ \E outcome_input \in BoolInputs, proof_input \in Proofs, ok \in Answers :
          SolveApply(outcome_input, proof_input, ok)
    \/ \E id \in Identifiers : DelPrediction(id)
    \/ SaveOpen
    \/ SaveDump
    \/ Kill

Spec == Init /\ [][Next]_vars

(* --------------- compute_brier_score on arbitrary lists ---------------- *)
BrierPredictions ==
    { [ Prediction(1, confidence, "Rain tomorrow", 0) EXCEPT !.outcome = outcome ] :
        confidence \in BrierConfidences, outcome \in Outcomes }

InitBrier ==
    /\ now = 0
    /\ file = NoFile
    /\ pc = "idle"
    /\ cmd = ""
    /\ content = << >>
    /\ storage_now = 0
    /\ draft = << >>
    /\ identifier = 0
    /\ predictions = << >>
    /\ exit = "ok"
    /\ prediction_list \in SeqsUpTo(BrierPredictions, MaxList)
    /\ brier = NoScore
    /\ NoStats

ComputeBrier ==
    /\ brier = NoScore
    /\ brier' = compute_brier_score(prediction_list, now)
    /\ UNCHANGED << now, file, pc, cmd, content, storage_now, draft, identifier,
                    predictions, exit, prediction_list, stats >>

NextBrier == ComputeBrier

SpecBrier == InitBrier /\ [][NextBrier]_vars

(* ------------------ the commands that only read the store -------------- *)
(* The predictions a store written by add, edit and solve can hold.        *)
StoredShapes ==
    { [ Prediction(d[2], confidence, statement, d[1])
          EXCEPT !.outcome = o[1], !.proof = o[2], !.tags = NormalizeTags(split(line)) ] :
        d \in { e \in (0..(MaxTime - 1)) \X (1..MaxTime) : e[1] < e[2] },
        confidence \in Confidences,
        statement \in Statements,
        o \in { << None, "" >> } \cup ({"True", "False"} \X Proofs),
        line \in TagLines }

(* Predictions enter a store in the order of their emission dates.         *)
InOrder(ps) ==
    \A i \in 1..(Len(ps) - 1) : ps[i].emission_date < ps[i + 1].emission_date

RECURSIVE StoreOf(_)
StoreOf(ps) ==
    IF ps = << >> THEN << >>
    ELSE add(StoreOf(SubSeq(ps, 1, Len(ps) - 1)), ps[Len(ps)])

(* The 'stats' command's TAG argument: absent, or a tag in any case.       *)
StatsTags == { << >>, << "a" >> }

(* Between two commands, with a saved file of predictions emitted earlier. *)
InitQuery ==
    /\ now \in 0..MaxTime
    /\ \E ps \in SeqsUpTo(StoredShapes, MaxPred) :
          /\ InOrder(ps)
          /\ \A i \in 1..Len(ps) : ps[i].emission_date < now
          /\ file = [ exists |-> TRUE, bytes |-> dumps(StoreOf(ps)) ]
    /\ pc = "idle"
    /\ cmd = ""
    /\ content = << >>
    /\ storage_now = 0
    /\ draft = << >>
    /\ identifier = 0
    /\ predictions = << >>
    /\ exit = "ok"
    /\ prediction_list = << >>
    /\ brier = NoScore
    /\ NoStats

(* print_next up to its test of the result of get_next.                    *)
PrintNext ==
    /\ pc = "idle"
    /\ Loaded.ok
    /\ file' = create_file_if_not_exists(file)
    /\ content' = Loaded.content
    /\ storage_now' = now
    /\ result' = get_next(Loaded.content, now)
    /\ pc' = "next"
    /\ cmd' = "next"
    /\ UNCHANGED << now, draft, identifier, predictions, exit, prediction_list, brier,
                    solved_list, future_list, pending_list >>

(* get_last called on a storage just opened.                               *)
GetLast ==
    /\ pc = "idle"
    /\ Loaded.ok
    /\ file' = create_file_if_not_exists(file)
    /\ content' = Loaded.content
    /\ storage_now' = now
    /\ result' = get_last(Loaded.content, now)
    /\ pc' = "last"
    /\ cmd' = "last"
    /\ UNCHANGED << now, draft, identifier, predictions, exit, prediction_list, brier,
                    solved_list, future_list, pending_list >>

(* print_stats up to the selection of the predictions by tag.              *)
StatsStart(tag) ==
    /\ pc = "idle"
    /\ Loaded.ok
    /\ file' = create_file_if_not_exists(file)
    /\ content' = Loaded.content
    /\ storage_now' = now
    /\ prediction_list' =
          IF Len(tag) > 0
          THEN SelectSeq(Values(Loaded.content),
                         LAMBDA p : \E i \in 1..Len(p.tags) : p.tags[i] = upper(tag))
          ELSE Values(Loaded.content)
    /\ pc' = "stats_solved"
    /\ cmd' = "stats"
    /\ UNCHANGED << now, draft, identifier, predictions, exit, brier, stats >>

(* The three list comprehensions of print_stats; each get_status reads the *)
(* clock when it is called.                                                *)
StatsSolved ==
    /\ pc = "stats_solved"
    /\ solved_list' = SelectSeq(prediction_list, LAMBDA p : get_status(p, now) = "solved")
    /\ pc' = "stats_future"
    /\ UNCHANGED << now, file, cmd, content, storage_now, draft, identifier, predictions,
                    exit, prediction_list, brier, future_list, pending_list, result >>

StatsFuture ==
    /\ pc = "stats_future"
    /\ future_list' = SelectSeq(prediction_list, LAMBDA p : get_status(p, now) = "future")
    /\ pc' = "stats_pending"
    /\ UNCHANGED << now, file, cmd, content, storage_now, draft, identifier, predictions,
                    exit, prediction_list, brier, solved_list, pending_list, result >>

StatsPending ==
    /\ pc = "stats_pending"
    /\ pending_list' = SelectSeq(prediction_list, LAMBDA p : get_status(p, now) = "pending")
    /\ pc' = "stats_print"
    /\ UNCHANGED << now, file, cmd, content, storage_now, draft, identifier, predictions,
                    exit, prediction_list, brier, solved_list, future_list, result >>

(* The command prints and ends; an exception raised ends it with an error. *)
QueryDone ==
    /\ pc \in {"next", "last", "stats_print"}
    /\ exit' = IF result.raised # "" THEN "error" ELSE "ok"
    /\ pc' = "idle"
    /\ cmd' = ""
    /\ content' = << >>
    /\ storage_now' = 0
    /\ prediction_list' = << >>
    /\ solved_list' = << >>
    /\ future_list' = << >>
    /\ pending_list' = << >>
    /\ result' = NoResult
    /\ UNCHANGED << now, file, draft, identifier, predictions, brier >>

NextQuery ==
    \/ Tick
    \/ PrintNext
    \/ GetLast
    \/ \E tag \in StatsTags : StatsStart(tag)
    \/ StatsSolved
    \/ StatsFuture
    \/ StatsPending
    \/ QueryDone

SpecQuery == InitQuery /\ [][NextQuery]_vars

(* ============================ properties =============================== *)
(* The predictions the program holds: in memory and on file.               *)
StoredPredictions ==
    { content[i].p : i \in 1..Len(content) }
    \cup { Loaded.content[i].p : i \in 1..Len(Loaded.content) }

Instants == 0..(MaxTime + 1)

IsSet(outcome) == outcome \in {"True", "False"}

(* C1: for every stored prediction and every instant, get_status is one of *)
(* future / pending / solved: solved iff the outcome is set; future iff    *)
(* the outcome is unset and realization_date > now; pending iff the        *)
(* outcome is unset and realization_date <= now.                           *)
C1_StatusOfPrediction ==
    \A p \in StoredPredictions, t \in Instants :
        LET st == get_status(p, t) IN
        /\ st \in {"future", "pending", "solved"}
        /\ (st = "solved") <=> IsSet(p.outcome)
        /\ (st = "future") <=> (~IsSet(p.outcome) /\ p.realization_date > t)
        /\ (st = "pending") <=> (~IsSet(p.outcome) /\ p.realization_date <= t)

(* A stored prediction due exactly now, unresolved, with status pending.   *)
C1_Witness ==
    \E p \in StoredPredictions :
        /\ p.outcome = None
        /\ p.realization_date = now
        /\ get_status(p, now) = "pending"

(* The store as its user sees it: the memory of the running command, the   *)
(* file between commands.                                                  *)
View == IF pc # "idle" THEN content ELSE Loaded.content

Rank(st) ==
    CASE st = "future" -> 0
      [] st = "pending" -> 1
      [] st = "solved" -> 2

Aborted == pc # "idle" /\ pc' = "idle" /\ exit' = "killed"

(* C2: over every step that is not the abort of a command (time advancing, *)
(* add, tag edit, resolve and re-resolve, save, reopen), the status of a   *)
(* stored prediction never moves back (future < pending < solved), and an  *)
(* outcome that is set stays set.                                          *)
C2_StatusMovesForward ==
    [][ Aborted \/
        \A k \in Keys(View) \cap Keys(View') :
            LET p == get(View, k)[1]
                q == get(View', k)[1]
            IN  /\ Rank(get_status(p, now)) <= Rank(get_status(q, now'))
                /\ IsSet(p.outcome) => IsSet(q.outcome)
      ]_vars

(* A prediction saved as solved is being resolved again by a later solve.  *)
C2_Witness ==
    /\ pc = "solve"
    /\ \E k \in Keys(content) \cap Keys(Loaded.content) :
          /\ IsSet(get(Loaded.content, k)[1].outcome)
          /\ get(content, k)[1].outcome # get(Loaded.content, k)[1].outcome

(* C3: the resolve step of solve_predictions changes only predictions      *)
(* whose status, as the command found them on file, is pending.            *)
C3_ResolveOnlyPending ==
    [][ (pc = "solve" /\ pc' # "idle") =>
        \A k \in Keys(content) :
            get(content', k) # get(content, k) =>
                get_status(get(Loaded.content, k)[1], now) = "pending"
      ]_vars

Invalid(p) ==
    \/ p.statement = None
    \/ p.statement = ""
    \/ p.confidence = NoneNum
    \/ p.confidence < 0
    \/ p.confidence > 100
    \/ p.realization_date = NoneNum
    \/ p.realization_date <= p.emission_date

(* C4: whenever the builder's draft breaks a validation rule, get_errors   *)
(* is non-empty and build yields nothing; build yields the prediction only *)
(* when get_errors is empty.                                               *)
C4_BuilderRejectsInvalid ==
    draft # << >> =>
        /\ Invalid(draft[1]) =>
              (get_errors(draft[1]) # {} /\ build(draft[1]) = << >>)
        /\ build(draft[1]) # << >> => get_errors(draft[1]) = {}

Resolved(ps) == { i \in 1..Len(ps) : IsSet(ps[i].outcome) }

SquaredError(p) ==
    LET observed == IF p.outcome = "True" THEN 100 ELSE 0
    IN  (p.confidence - observed) * (p.confidence - observed)

RECURSIVE SumOver(_, _)
SumOver(ps, I) ==
    IF I = {} THEN 0
    ELSE LET i == CHOOSE j \in I : TRUE
         IN  SquaredError(ps[i]) + SumOver(ps, I \ {i})

(* C5: with at least one resolved record, the score is the mean over the   *)
(* resolved records of (confidence - observed)^2; a single record gives 0  *)
(* for (1.0, true), 1 for (1.0, false), 0.25 for (0.5, either).            *)
C5_BrierIsMeanOverResolved ==
    (brier # NoScore /\ Resolved(prediction_list) # {}) =>
        /\ brier.den > 0
        /\ brier.num * Cardinality(Resolved(prediction_list))
             = SumOver(prediction_list, Resolved(prediction_list)) * brier.den
        /\ Len(prediction_list) = 1 =>
              LET p == prediction_list[1] IN
              /\ (p.confidence = 100 /\ p.outcome = "True") => brier.num = 0
              /\ (p.confidence = 100 /\ p.outcome = "False") => brier.num = 10000 * brier.den
              /\ p.confidence = 50 => 4 * brier.num = 10000 * brier.den

(* A score computed on a list with an unresolved record between resolved   *)
(* ones of both outcomes.                                                  *)
C5_Witness ==
    /\ brier # NoScore
    /\ Len(prediction_list) = 3
    /\ prediction_list[1].outcome = "True"
    /\ prediction_list[2].outcome = None
    /\ prediction_list[3].outcome = "False"
    /\ prediction_list[1].confidence = 70

(* C6: with no resolved record the score is exactly 2 (no division by      *)
(* zero); with a resolved record and every resolved confidence in [0, 1]   *)
(* it lies in [0, 1], so it is not 2.                                      *)
C6_BrierSentinel ==
    brier # NoScore =>
        /\ Resolved(prediction_list) = {} => brier = [ num |-> 2 * 10000, den |-> 1 ]
        /\ ( /\ Resolved(prediction_list) # {}
             /\ \A i \in Resolved(prediction_list) :
                    prediction_list[i].confidence \in 0..100 )
           => /\ brier.den > 0
              /\ 0 <= brier.num
              /\ brier.num <= 10000 * brier.den
              /\ brier.num # 2 * 10000 * brier.den

(* The sentinel returned for a list that is not empty and holds no         *)
(* resolved record.                                                        *)
C6_Witness ==
    /\ brier = [ num |-> 2 * 10000, den |-> 1 ]
    /\ Len(prediction_list) = 2
    /\ Resolved(prediction_list) = {}

SameRecord(p, q) ==
    /\ p.statement = q.statement
    /\ p.confidence = q.confidence
    /\ p.realization_date = q.realization_date
    /\ p.emission_date = q.emission_date
    /\ p.outcome = q.outcome
    /\ p.proof = q.proof
    /\ p.tags = q.tags

(* C7: when save completes, opening the file yields the ids that were in   *)
(* memory, each with a record equal in every field.                        *)
C7_RoundTrip ==
    [][ (pc = "dump" /\ pc' = "idle" /\ exit' = "ok") =>
        /\ Loaded'.ok
        /\ Keys(Loaded'.content) = Keys(content)
        /\ \A k \in Keys(content) :
              /\ get(Loaded'.content, k) # << >>
              /\ SameRecord(get(Loaded'.content, k)[1], get(content, k)[1])
      ]_vars

(* A saved file of two predictions, one resolved with a proof and tagged.  *)
C7_Witness ==
    /\ pc = "idle"
    /\ exit = "ok"
    /\ Loaded.ok
    /\ Len(Loaded.content) = 2
    /\ \E i \in 1..2 :
          /\ IsSet(Loaded.content[i].p.outcome)
          /\ Loaded.content[i].p.proof # ""
          /\ Loaded.content[i].p.tags # << >>

(* C8: once the process has stopped, wherever it stopped, the file can be  *)
(* opened.                                                                 *)
C8_SaveAtomic ==
    (pc = "idle" /\ file.exists) => loads(file.bytes).ok

(* C9: the file changes only in save, or when a missing file is created    *)
(* empty on open; no other step, the abort of a command included, changes  *)
(* it.                                                                     *)
C9_FileChangesOnlyInSave ==
    [][ file' # file =>
        \/ pc \in {"save", "dump"}
        \/ /\ pc = "idle"
           /\ ~file.exists
           /\ file' = [ exists |-> TRUE, bytes |-> dumps(<< >>) ]
      ]_vars

(* solve_predictions has resolved a prediction in memory that the file     *)
(* still holds unresolved.                                                 *)
C9_Witness ==
    /\ pc = "solve"
    /\ Loaded.ok
    /\ \E k \in Keys(content) \cap Keys(Loaded.content) :
          /\ IsSet(get(content, k)[1].outcome)
          /\ get(Loaded.content, k)[1].outcome = None

(* C10: del_prediction's delete does not raise; with an id that is no key  *)
(* the collection is as it was loaded; with a key, that key is gone and    *)
(* every other entry is as it was.                                         *)
C10_Delete ==
    [][ (pc = "idle" /\ Loaded.ok /\ cmd' = "del") =>
        /\ pc' = "save"
        /\ exit' = exit
        /\ identifier' \notin Keys(Loaded.content) => content' = Loaded.content
        /\ identifier' \in Keys(Loaded.content) =>
              /\ Keys(content') = Keys(Loaded.content) \ {identifier'}
              /\ \A k \in Keys(content') : get(content', k) = get(Loaded.content, k)
      ]_vars

(* After the delete of an id that is no key of a store of two.             *)
C10_Witness ==
    /\ pc = "save"
    /\ cmd = "del"
    /\ identifier \notin Keys(Loaded.content)
    /\ Len(content) = 2
    /\ content = Loaded.content

WellFormedTag(t) ==
    /\ Len(t) > 0
    /\ t[1] # " "
    /\ t[Len(t)] # " "
    /\ \A i \in 1..Len(t) : t[i] \notin {"a", "b"}

(* C14: after a tag edit the tags are non-empty, trimmed, upper-cased      *)
(* tokens, none appearing twice, and no other field of the prediction has  *)
(* changed.                                                                *)
C14_TagEdit ==
    [][ (pc = "edit" /\ pc' = "save") =>
        LET p == get(content, identifier)[1]
            q == get(content', identifier)[1]
        IN  /\ \A i \in 1..Len(q.tags) : WellFormedTag(q.tags[i])
            /\ \A i, j \in 1..Len(q.tags) : q.tags[i] = q.tags[j] => i = j
            /\ q = [ p EXCEPT !.tags = q.tags ]
      ]_vars

(* C15: while the file exists and cannot be loaded, every command ends     *)
(* with an error before it does anything: the file stays as it is, nothing *)
(* is loaded and nothing is saved.                                         *)
C15_CorruptFileLeftAlone ==
    [][ (pc = "idle" /\ file.exists /\ ~loads(file.bytes).ok) =>
        /\ file' = file
        /\ pc' = "idle"
        /\ content' = content
        /\ now' = now => exit' = "error"
      ]_vars

(* A command has failed on a file that cannot be loaded.                   *)
C15_Witness ==
    /\ pc = "idle"
    /\ file.exists
    /\ ~loads(file.bytes).ok
    /\ exit = "error"

KeyedByShortHash(c) ==
    /\ \A i \in 1..Len(c) : c[i].k = short_hash(c[i].p)
    /\ \A i, j \in 1..Len(c) : c[i].k = c[j].k => i = j

(* C16: in memory and on file, every key is the short_hash of the          *)
(* prediction it maps to.                                                  *)
C16_KeyIsShortHash ==
    /\ KeyedByShortHash(content)
    /\ KeyedByShortHash(Loaded.content)

(* The tags of a resolved prediction have been edited, in a store of two.  *)
C16_Witness ==
    /\ pc = "save"
    /\ cmd = "edit"
    /\ Len(content) = 2
    /\ IsSet(get(content, identifier)[1].outcome)
    /\ get(content, identifier)[1].tags # get(Loaded.content, identifier)[1].tags

InSeq(p, ps) == \E i \in 1..Len(ps) : ps[i] = p

(* C11: in an open store, get_past is exactly the records with             *)
(* realization_date <= now and get_future exactly those with               *)
(* realization_date > now, so every record is in exactly one of the two.   *)
C11_PastFuturePartition ==
    pc # "idle" =>
        \A i \in 1..Len(content) :
            LET p == content[i].p
                past == InSeq(p, get_past(content, storage_now))
                future == InSeq(p, get_future(content, storage_now))
            IN  /\ past <=> p.realization_date <= storage_now
                /\ future <=> p.realization_date > storage_now
                /\ past # future

FutureOf(c, t) == { c[i].p : i \in { j \in 1..Len(c) : c[j].p.realization_date > t } }

PastOf(c, t) == { c[i].p : i \in { j \in 1..Len(c) : c[j].p.realization_date <= t } }

(* C12: get_next raises nothing; it returns None when the store has no     *)
(* future record, and otherwise a future record of the earliest            *)
(* realization_date.                                                       *)
C12_GetNext ==
    pc = "next" =>
        /\ result.raised = ""
        /\ FutureOf(content, storage_now) = {} => result.value = << >>
        /\ FutureOf(content, storage_now) # {} =>
              /\ result.value # << >>
              /\ result.value[1] \in FutureOf(content, storage_now)
              /\ \A q \in FutureOf(content, storage_now) :
                    result.value[1].realization_date <= q.realization_date

(* C13: get_last raises nothing; it returns None when the store has no     *)
(* past record, and otherwise a past record of the latest                  *)
(* realization_date.                                                       *)
C13_GetLast ==
    pc = "last" =>
        /\ result.raised = ""
        /\ PastOf(content, storage_now) = {} => result.value = << >>
        /\ PastOf(content, storage_now) # {} =>
              /\ result.value # << >>
              /\ result.value[1] \in PastOf(content, storage_now)
              /\ \A q \in PastOf(content, storage_now) :
                    result.value[1].realization_date >= q.realization_date

Count(b) == IF b THEN 1 ELSE 0

(* C17: when print_stats has built its three lists, every selected         *)
(* prediction is in exactly one of them, and their lengths sum to the      *)
(* number of selected predictions.                                         *)
C17_StatsPartition ==
    pc = "stats_print" =>
        /\ \A i \in 1..Len(prediction_list) :
              Count(InSeq(prediction_list[i], solved_list))
              + Count(InSeq(prediction_list[i], future_list))
              + Count(InSeq(prediction_list[i], pending_list)) = 1
        /\ Len(solved_list) + Len(future_list) + Len(pending_list) = Len(prediction_list)

====
